---- MODULE Spec2Model ----
(***************************************************************************)
(* The notebooks arrays.ipynb and visualization.ipynb (the latter file     *)
(* holds two notebooks: "Visualization of image processing" and "Image     *)
(* filtering, using pixel neighbors") as state machines: one Jupyter       *)
(* kernel per notebook, one action per execution of a code cell.           *)
(*                                                                         *)
(* Images are rows of a few pixels (shape (1, n)); floating-point samples  *)
(* are fixed-point integers in units of 1/131070, so that the conversion   *)
(* of an 8-bit sample p to float, p/255, is the exact integer 514*p, and   *)
(* 0.5 is exact as well.                                                   *)
(***************************************************************************)
EXTENDS Integers, Sequences, FiniteSets, TLC

\* ------------------------------------------------------------- bounds
\* pixels of the coins, cat, coffee and text sample images
NPix == 3
\* pixels of the camera sample image
NPixCam == 2
\* pixels of the random binary_blobs image
NPixBlob == 1
\* directories one kernel may create with tempfile.mkdtemp
MaxDirs == 2
\* images and titles of one imshow_all call
MaxImages == 3
\* cells the user selects out of order
MaxJumps == 1

\* ------------------------------------------------------------- values
\* 1.0 in fixed point
One == 2 * 255 * 257

Mod(x) == [kind |-> "module", dtype |-> x, px |-> <<>>]
Obj(x) == [kind |-> "object", dtype |-> x, px |-> <<>>]
Arr(d, p) == [kind |-> "array", dtype |-> d, px |-> p]
Path(r, i, f) == [kind |-> "path", root |-> r, id |-> i, file |-> f]

RECURSIVE SeqMin(_)
SeqMin(s) ==
  IF Len(s) = 1 THEN s[1]
  ELSE LET m == SeqMin(Tail(s)) IN IF s[1] < m THEN s[1] ELSE m

RECURSIVE SeqMax(_)
SeqMax(s) ==
  IF Len(s) = 1 THEN s[1]
  ELSE LET m == SeqMax(Tail(s)) IN IF s[1] > m THEN s[1] ELSE m

\* number of values of an unsigned integer element type
DtypeMod(d) == IF d = "uint8" THEN 256 ELSE 65536

\* sample values of the bundled images, chosen around the thresholds the
\* cells compare with (coins < 30, < 90, > 150; camera < 40, 2*camera)
CoinSamples == {29, 90, 151}
CamSamples == {0, 39, 127, 128, 255}
CatSamples == {10, 255}

\* the coins image has dark background pixels and bright coin pixels
CoinImgs ==
  {Arr("uint8", p) : p \in {q \in [1..NPix -> CoinSamples] :
      (\E i \in 1..NPix : q[i] < 30) /\ (\E i \in 1..NPix : q[i] > 150)}}
CamImgs == {Arr("uint8", p) : p \in [1..NPixCam -> CamSamples]}
\* an RGB image: three consecutive samples per pixel
CatImgs == {Arr("uint8", [i \in 1..(3 * NPix) |-> v]) : v \in CatSamples}

\* ------------------------------------------------ library calls (arrays)
\* a < t : the boolean mask of the pixels below t (True is 1)
Less(a, t) == Arr("bool", [i \in DOMAIN a.px |-> IF a.px[i] < t THEN 1 ELSE 0])
Greater(a, t) == Arr("bool", [i \in DOMAIN a.px |-> IF a.px[i] > t THEN 1 ELSE 0])

\* np.copy(a): a new array with the samples of a
NpCopy(a) == Arr(a.dtype, a.px)

\* a[m] = v : v written where the mask m is True
MaskAssign(a, m, v) ==
  [a EXCEPT !.px = [i \in DOMAIN a.px |-> IF m.px[i] = 1 THEN v ELSE a.px[i]]]

\* cat[10:110, 10:110, :] = [255, 0, 0] ; the slice covers the first pixel
InSquare(i) == i = 1
RedSquare(a) ==
  [a EXCEPT !.px = [j \in DOMAIN a.px |->
      IF InSquare((j + 2) \div 3)
      THEN (IF j % 3 = 1 THEN 255 ELSE 0)
      ELSE a.px[j]]]

\* a variant of k * a: the product is not reduced to the element type
ScalarMulWide(k, a) == Arr(a.dtype, [i \in DOMAIN a.px |-> k * a.px[i]])

\* k * a for a Python integer k and an unsigned array: the element type is
\* kept and the product wraps
ScalarMul(k, a) ==
  Arr(a.dtype, [i \in DOMAIN a.px |-> (k * a.px[i]) % DtypeMod(a.dtype)])

\* a variant of img_as_float: a.astype(float), the samples are not rescaled
ImgAsFloatUnscaled(a) == Arr("float64", [i \in DOMAIN a.px |-> One * a.px[i]])

\* skimage.img_as_float: unsigned integers are divided by their maximum,
\* booleans become 0.0 and 1.0, floats are returned as they are
ImgAsFloat(a) ==
  CASE a.dtype = "uint8" -> Arr("float64", [i \in DOMAIN a.px |-> (One \div 255) * a.px[i]])
    [] a.dtype = "uint16" -> Arr("float64", [i \in DOMAIN a.px |-> (One \div 65535) * a.px[i]])
    [] a.dtype = "bool" -> Arr("float64", [i \in DOMAIN a.px |-> One * a.px[i]])
    [] OTHER -> a

\* filters.gaussian: the image is converted to float and every output
\* sample is a weighted mean of input samples (weights >= 0, sum 1; the
\* border repeats the nearest sample), so it lies between the minimum and
\* the maximum; g picks the minimum, the midpoint or the maximum
Gaussian(a, g) ==
  LET f == ImgAsFloat(a)
      lo == SeqMin(f.px)
      hi == SeqMax(f.px)
  IN Arr("float64", [i \in DOMAIN f.px |-> lo + (g * (hi - lo)) \div 2])

\* ----------------------------------- library calls (visualization, filtering)
\* 1./25 * np.arange(25).reshape((5, 5)), rounded down to the fixed point
Arr2(d, cols, p) == [kind |-> "array", dtype |-> d, px |-> p, cols |-> cols]
Ramp == Arr2("float64", 5, [i \in 1..25 |-> ((i - 1) * One) \div 25])

\* color.gray2rgb: the grey sample in each of the three channels
Gray2Rgb(a) == Arr(a.dtype, [j \in 1..(3 * Len(a.px)) |-> a.px[(j + 2) \div 3]])

\* coins_color[c_rr, c_cc] = (220, 20, 20) ; the circle passes through the
\* first pixel
OnCircle(i) == i = 1
RedCircle(a) ==
  [a EXCEPT !.px = [j \in DOMAIN a.px |->
      IF OnCircle((j + 2) \div 3)
      THEN (IF j % 3 = 1 THEN 220 ELSE 20)
      ELSE a.px[j]]]

\* coins[10:80, 300:370] : a part of the image, here without its first pixel
Zoom(a) == Arr(a.dtype, SubSeq(a.px, 2, Len(a.px)))

\* filters.rank.median with a 3x3 neighbourhood, on a row: the (lower)
\* median of the pixel and its neighbours inside the image
Median(a) ==
  LET n == Len(a.px)
      nbh(i) == {j \in 1..n : j >= i - 1 /\ j <= i + 1}
      below(i, v) == Cardinality({j \in nbh(i) : a.px[j] <= v})
      med(i) == CHOOSE v \in {a.px[j] : j \in nbh(i)} :
                  /\ 2 * below(i, v) >= Cardinality(nbh(i))
                  /\ \A u \in {a.px[j] : j \in nbh(i)} :
                       2 * below(i, u) >= Cardinality(nbh(i)) => v <= u
  IN Arr(a.dtype, [i \in 1..n |-> med(i)])

\* the 7x7 test image of the morphology section
TestImage ==
  Arr2("uint8", 7,
       << 0, 0, 0, 0, 0, 0, 0,
          0, 0, 0, 0, 0, 0, 0,
          0, 0, 1, 1, 1, 0, 0,
          0, 0, 1, 1, 1, 0, 0,
          0, 0, 1, 1, 1, 0, 0,
          0, 0, 0, 0, 0, 0, 0,
          0, 0, 0, 0, 0, 0, 0 >>)

\* structuring elements, as the offsets of their non-zero entries
Abs(x) == IF x < 0 THEN -x ELSE x
Selem(offs) == [kind |-> "selem", offs |-> offs]
Square(width) ==
  Selem({<<dr, dc>> \in (-(width \div 2)..(width \div 2)) \X (-(width \div 2)..(width \div 2)) : TRUE})
Diamond(radius) ==
  Selem({<<dr, dc>> \in (-radius..radius) \X (-radius..radius) : Abs(dr) + Abs(dc) <= radius})

\* scipy.ndimage's border mode "reflect": (d c b a | a b c d | d c b a)
Reflect(i, n) == IF i < 1 THEN 1 - i ELSE IF i > n THEN 2 * n + 1 - i ELSE i

SetMin(S) == CHOOSE x \in S : \A y \in S : x <= y
SetMax(S) == CHOOSE x \in S : \A y \in S : x >= y

\* the samples of the neighbourhood of pixel k (row-major, from 1)
Neighbourhood(a, selem, k) ==
  LET cols == a.cols
      rows == Len(a.px) \div cols
      r == ((k - 1) \div cols) + 1
      c == ((k - 1) % cols) + 1
  IN {a.px[(Reflect(r + o[1], rows) - 1) * cols + Reflect(c + o[2], cols)] : o \in selem.offs}

\* a variant of erosion: the maximum over the neighbourhood, which is
\* dilation
ErosionMax(a, selem) ==
  [a EXCEPT !.px = [k \in DOMAIN a.px |-> SetMax(Neighbourhood(a, selem, k))]]

\* morphology.erosion: the minimum over the neighbourhood
Erosion(a, selem) ==
  [a EXCEPT !.px = [k \in DOMAIN a.px |-> SetMin(Neighbourhood(a, selem, k))]]

\* morphology.dilation: the maximum over the neighbourhood
Dilation(a, selem) ==
  [a EXCEPT !.px = [k \in DOMAIN a.px |-> SetMax(Neighbourhood(a, selem, k))]]

\* data.binary_blobs() - 0.5 : a random boolean image, as floats -0.5, 0.5
Blobs(b) == Arr("float64", [i \in DOMAIN b |-> (b[i] * One) - (One \div 2)])
\* im += 0.4 * np.random.randn(*im.shape) : a random real added per sample
AddNoise(a, noise) == [a EXCEPT !.px = [i \in DOMAIN a.px |-> a.px[i] + noise[i]]]

\* filters.sobel: the gradient magnitude, zero on the border of the image;
\* an image of one row is all border
Sobel(a) == Arr("float64", [i \in DOMAIN a.px |-> 0])

\* np.zeros_like(a)
ZerosLike(a) == Arr(a.dtype, [i \in DOMAIN a.px |-> 0])
\* markers[mask] = v
Mark(a, m, v) == MaskAssign(a, m, v)

\* the nearest marked pixel on one side of pixel i, 0 when there is none
RECURSIVE Nearest(_, _, _)
Nearest(markers, i, step) ==
  IF i < 1 \/ i > Len(markers) THEN 0
  ELSE IF markers[i] # 0 THEN markers[i]
  ELSE Nearest(markers, i + step, step)

\* segmentation.watershed: the markers flood the image, so that every pixel
\* gets the label of a marker it is connected to (no pixel stays 0 when
\* there is a marker); on the flat elevation of a row the border between
\* two basins may fall at either end of an unmarked run, which d decides
Watershed(elevation, markers, d) ==
  LET m == markers.px
      first(i) == Nearest(m, i, IF d = 0 THEN -1 ELSE 1)
      other(i) == Nearest(m, i, IF d = 0 THEN 1 ELSE -1)
  IN Arr(markers.dtype,
         [i \in DOMAIN m |-> IF first(i) # 0 THEN first(i) ELSE other(i)])

\* util.regular_grid with at least as many points as pixels, and
\* seeds[grid] = arange + 1 : every pixel is a seed of its own
Seeds(a) == Arr("int64", [i \in DOMAIN a.px |-> i])

\* measure.label: connected regions of equal value are numbered from 1 in
\* raster order; only the value 0 is background and stays 0
RECURSIVE LabelUpTo(_, _)
LabelUpTo(px, i) ==
  IF i = 0 THEN <<>>
  ELSE LET prev == LabelUpTo(px, i - 1)
           used == IF i = 1 THEN 0 ELSE SeqMax(<<0>> \o prev)
       IN Append(prev,
            IF px[i] = 0 THEN 0
            ELSE IF i > 1 /\ px[i - 1] = px[i] THEN prev[i - 1]
            ELSE used + 1)
Label(a) == Arr("int64", LabelUpTo(a.px, Len(a.px)))

\* labels.max()
ArrMax(a) == SeqMax(a.px)

\* measure.regionprops(labels, intensity): one record per label 1..max
RECURSIVE SumOf(_, _)
SumOf(f, S) ==
  IF S = {} THEN 0
  ELSE LET i == CHOOSE x \in S : TRUE IN f[i] + SumOf(f, S \ {i})
RegionProps(labels, intensity) ==
  [kind |-> "list",
   items |-> [l \in 1..ArrMax(labels) |->
      LET region == {i \in DOMAIN labels.px : labels.px[i] = l}
      IN [label |-> l, area |-> Cardinality(region),
          mean_intensity |-> SumOf(intensity.px, region) \div Cardinality(region)]]]

\* ------------------------------------------------------------ imshow_all
\* keyword arguments are a dict: a function from the keys given
Pop(kw, k) == [x \in DOMAIN kw \ {k} |-> kw[x]]
Get(kw, k, default) == IF k \in DOMAIN kw THEN kw[k] ELSE default
SetDefault(kw, k, v) ==
  IF k \in DOMAIN kw THEN kw
  ELSE [x \in DOMAIN kw \cup {k} |-> IF x = k THEN v ELSE kw[x]]

Repeat(x, n) == [i \in 1..(IF n > 0 THEN n ELSE 0) |-> x]
Least(a, b) == IF a < b THEN a ELSE b

\* titles = kwargs.pop('titles', []) and the padding with empty strings
PadTitles(given, n) ==
  IF Len(given) # n THEN given \o Repeat("", n - Len(given)) ELSE given

\* min(img.min() for img in images), max(img.max() for img in images)
ImagesMin(images) == SeqMin([i \in DOMAIN images |-> SeqMin(images[i].px)])
ImagesMax(images) == SeqMax([i \in DOMAIN images |-> SeqMax(images[i].px)])

\* skimage.util.dtype.dtype_limits of a float image, negative part clipped
DtypeLimits(a) == <<0, One>>

\* the limits branch: kwargs.setdefault('vmin', ...), ('vmax', ...)
WithLimits(kw, limits, images) ==
  IF limits = "image"
  THEN SetDefault(SetDefault(kw, "vmin", ImagesMin(images)), "vmax", ImagesMax(images))
  ELSE IF limits = "dtype"
  THEN SetDefault(SetDefault(kw, "vmin", DtypeLimits(images[1])[1]),
                  "vmax", DtypeLimits(images[1])[2])
  ELSE kw

\* for ax, img, label in zip(axes.ravel(), images, titles):
\*     ax.imshow(img, **kwargs); ax.set_title(label)
DrawAll(naxes, images, titles, kw) ==
  [i \in 1..Least(naxes, Least(Len(images), Len(titles))) |->
     [img |-> images[i], title |-> titles[i], kw |-> kw]]

\* what a call did: the exception it raised ("" for none), its title list
\* and the ax.imshow calls it made; with the arguments it was given
Shown(imgs, kwargs, e, titles, drawn) ==
  [called |-> TRUE, imgs |-> imgs, kwargs |-> kwargs, err |-> e,
   titles |-> titles, drawn |-> drawn]

\* imshow_all(*imgs, **kwargs), called in cell c; the names of its body are
\* looked up in the kernel's namespace when the call runs
imshow_all(w, imgs, kwargs, c) ==
  IF Len(imgs) > 0 /\ "img_as_float" \notin DOMAIN w.ns
  THEN [w EXCEPT !.err = "NameError", !.shown = Shown(imgs, kwargs, "NameError", <<>>, <<>>)]
  ELSE
  LET images == [i \in DOMAIN imgs |-> ImgAsFloat(imgs[i])]
      titles == PadTitles(Get(kwargs, "titles", <<>>), Len(images))
      limits == Get(kwargs, "limits", "image")
      kw1 == Pop(Pop(kwargs, "titles"), "limits")
  IN
  IF limits = "image" /\ Len(images) = 0
  THEN [w EXCEPT !.err = "ValueError", !.shown = Shown(imgs, kwargs, "ValueError", titles, <<>>)]
  ELSE IF limits = "dtype" /\ "dtype_limits" \notin DOMAIN w.ns
  THEN [w EXCEPT !.err = "NameError", !.shown = Shown(imgs, kwargs, "NameError", titles, <<>>)]
  ELSE
  LET kw2 == WithLimits(kw1, limits, images)
      shape == Get(kw2, "shape", <<1, Len(images)>>)
      naxes == shape[1] * shape[2]
      kw3 == Pop(kw2, "size")
  IN
  IF "plt" \notin DOMAIN w.ns
  THEN [w EXCEPT !.err = "NameError", !.shown = Shown(imgs, kwargs, "NameError", titles, <<>>)]
  ELSE IF naxes = 0
  THEN [w EXCEPT !.err = "ValueError", !.shown = Shown(imgs, kwargs, "ValueError", titles, <<>>)]
  ELSE IF naxes = 1
  \* plt.subplots returns the one Axes object, which has no ravel
  THEN [w EXCEPT !.err = "AttributeError", !.fig = c,
                 !.shown = Shown(imgs, kwargs, "AttributeError", titles, <<>>)]
  ELSE [w EXCEPT !.fig = c,
                 !.shown = Shown(imgs, kwargs, "", titles, DrawAll(naxes, images, titles, kw3))]

\* ------------------------------------------------------------ statements
\* a statement of a cell: the names it reads (a NameError when one is not
\* bound), the library globals it reads, and its arguments
St(op, reads, g, a) == [op |-> op, reads |-> reads, g |-> g, a |-> a]

Import(names) == St("import", {}, {}, names)
\* def f(...): binds f; the body is not evaluated
Def(f) == St("import", {}, {}, {f})
Use(reads) == St("use", reads, {}, <<>>)
\* data.<sample>() : target = sample image
Load(target, sample) == St("load", {"data"}, {}, <<target, sample>>)
\* plt.imshow(x, cmap=...) draws on the current figure
ImshowCmap(x) == St("draw", {"plt", x}, {"figure"}, <<>>)
\* plt.imshow(x) also reads rcParams['image.cmap']
Imshow(x) == St("draw", {"plt", x}, {"figure", "rcParams"}, <<>>)
\* plt.figure()
Figure == St("figure", {"plt"}, {}, <<>>)
\* fig, axes = plt.subplots(...)
Subplots(f, ax) == St("subplots", {"plt"}, {}, {f, ax})
\* axes[i].imshow(x, cmap=...)
AxImshowCmap(ax, x) == St("use", {ax, x}, {}, <<>>)
AxImshow(ax, x) == St("use", {ax, x}, {"rcParams"}, <<>>)
\* %matplotlib <backend>
Magic(b) == St("magic", {}, {}, <<b>>)
\* target = f(source)
Let(op, target, reads) == St(op, reads, {}, <<target>>)

\* ------------------------------------------------- arrays.ipynb, by cell
\* variants of two cells: the interactive backend, which keeps the figures
\* of a cell open, and a smoothed image bound to another name
ArraysImportsNotebook == << Magic("notebook"), Import({"np", "plt"}) >>
ArraysGaussianTypo ==
  << Import({"filters"}),
     St("gaussian", {"filters", "camera"}, {}, <<"gaussian_camera", "camera">>),
     Use({"camera"}),
     Use({"camera_gaussian"}),
     ImshowCmap("camera_gaussian") >>

ArraysImports == << Magic("inline"), Import({"np", "plt"}) >>
ArraysCoins == << Import({"data"}), Load("coins", "coins.png") >>
ArraysType == << Use({"coins"}) >>
ArraysShowCoins == << ImshowCmap("coins") >>
ArraysPrintCoins == << Use({"coins"}) >>
ArraysCat == << Load("cat", "chelsea.png"), Imshow("cat"), Use({"cat"}) >>
ArraysRedSquare == << Let("red_square", "cat", {"cat"}), Imshow("cat") >>
ArraysMask ==
  << Let("mask_bg", "mask_bg", {"coins"}),
     Let("np_copy", "coins_bg", {"np", "coins"}),
     Let("mask_assign", "coins_bg", {"coins_bg", "mask_bg"}),
     Subplots("fig", "axes"),
     AxImshowCmap("axes", "mask_bg"),
     AxImshowCmap("axes", "coins_bg") >>
ArraysSolution == << >>
ArraysOverflow ==
  << Load("camera", "camera.png"),
     Use({"camera"}),
     Let("overflow", "camera_overflow", {"camera"}),
     Subplots("fig", "axes"),
     AxImshowCmap("axes", "camera"),
     AxImshowCmap("axes", "camera_overflow") >>
ArraysFloat ==
  << Import({"img_as_float"}),
     Let("img_as_float", "camera_float", {"img_as_float", "camera"}),
     Use({"camera"}),
     Use({"camera_float"}) >>
ArraysGaussian ==
  << Import({"filters"}),
     St("gaussian", {"filters", "camera"}, {}, <<"camera_gaussian", "camera">>),
     Use({"camera"}),
     Use({"camera_gaussian"}),
     ImshowCmap("camera_gaussian") >>
ArraysDataDir ==
  << Import({"skimage", "os"}),
     Let("data_dir", "data_dir", {"skimage"}),
     St("join", {"os", "data_dir"}, {}, <<"camera_filename", "data_dir", "camera.png">>),
     Use({"camera_filename"}) >>
ArraysImread ==
  << Import({"io"}),
     St("imread", {"io", "camera_filename"}, {}, <<"camera", "camera_filename">>),
     ImshowCmap("camera") >>
ArraysImsave ==
  << Import({"tempfile"}),
     Let("mkdtemp", "tmp_dir", {"tempfile"}),
     St("join", {"os", "tmp_dir"}, {}, <<"file_name", "tmp_dir", "my_camera.png">>),
     St("imsave", {"io", "file_name", "camera"}, {}, <<"file_name">>),
     Use({"os", "tmp_dir"}) >>
ArraysImsaveGaussian ==
  << St("join", {"os", "tmp_dir"}, {}, <<"file_name", "tmp_dir", "gaussian_camera.png">>),
     St("imsave", {"io", "file_name", "camera_gaussian"}, {}, <<"file_name">>) >>

ArraysCells ==
  << ArraysImports, ArraysCoins, ArraysType, ArraysShowCoins, ArraysPrintCoins,
     ArraysCat, ArraysRedSquare, ArraysMask, ArraysSolution, ArraysOverflow,
     ArraysFloat, ArraysGaussian, ArraysDataDir, ArraysImread, ArraysImsave,
     ArraysImsaveGaussian >>

\* --------------------- visualization.ipynb, first notebook (lines 1-343)
VisMagic == << Magic("notebook") >>
VisImports == << Import({"np", "plt"}) >>
VisCat == << Import({"data"}), Load("cat", "chelsea.png") >>
VisShowCat == << Imshow("cat"), St("use", {"plt"}, {"figure"}, <<>>) >>
VisCamera == << Load("camera", "camera.png") >>
VisColorbar ==
  << Figure, Imshow("camera"), St("use", {"plt"}, {"figure"}, <<>>) >>
VisGray == << St("set_cmap", {"plt"}, {"figure"}, <<"gray">>) >>
VisRamp == << St("ramp", {"np"}, {}, <<"a">>), Figure, Imshow("a") >>
VisBicubic == << Figure, Imshow("a") >>
VisThreshold == << Figure, Imshow("camera") >>
VisContour ==
  << Figure, Imshow("camera"), St("draw", {"plt", "camera"}, {"figure"}, <<>>) >>
VisSavefig ==
  << Import({"tempfile", "os"}),
     Let("mkdtemp", "tmp_dir", {"tempfile"}),
     St("join", {"os", "tmp_dir"}, {}, <<"file_name_png", "tmp_dir", "figure.png">>),
     St("savefig", {"plt", "file_name_png"}, {"figure"}, <<"file_name_png">>),
     St("join", {"os", "tmp_dir"}, {}, <<"file_name_pdf", "tmp_dir", "figure.pdf">>),
     St("savefig", {"plt", "file_name_pdf"}, {"figure"}, <<"file_name_pdf">>),
     Use({"os", "tmp_dir"}) >>
VisFeature == << Import({"feature"}) >>
VisCorners ==
  << St("opaque", {"feature", "camera"}, {}, <<"coords", "coordinates">>),
     Use({"coords"}) >>
VisPlotCorners ==
  << Figure, Imshow("camera"), St("draw", {"plt", "coords"}, {"figure"}, <<>>) >>
VisSolution == << >>
VisDraw == << Import({"draw", "transform"}) >>
VisCoinsColor ==
  << Figure,
     Load("coins", "coins.png"),
     Imshow("coins"),
     Import({"color"}),
     St("gray2rgb", {"color", "coins"}, {}, <<"coins_color", "coins">>),
     Imshow("coins_color") >>
VisCircle ==
  << St("opaque", {"draw"}, {}, <<"c_rr", "coordinates">>),
     St("opaque", {"draw"}, {}, <<"c_cc", "coordinates">>),
     St("red_circle", {"coins_color", "c_rr", "c_cc"}, {}, <<"coins_color">>),
     Imshow("coins_color") >>
VisSuperpixels ==
  << Load("coffee", "coffee.png"),
     Import({"segmentation"}),
     St("opaque", {"segmentation", "coffee"}, {}, <<"superpixels", "labels">>),
     Subplots("fig", "ax"),
     St("opaque", {"ax"}, {}, <<"ax", "axes">>),
     AxImshowCmap("ax", "superpixels"),
     St("use", {"ax", "segmentation", "coffee", "superpixels"}, {}, <<>>) >>

VisCells ==
  << VisMagic, VisImports, VisCat, VisShowCat, VisCamera, VisColorbar, VisGray,
     VisRamp, VisBicubic, VisThreshold, VisContour, VisSavefig, VisFeature,
     VisCorners, VisPlotCorners, VisSolution, VisDraw, VisCoinsColor, VisCircle,
     VisSuperpixels >>

\* ------------------- visualization.ipynb, second notebook (lines 345-946)
\* imshow_all(x, y, shape=(1, 2))
ImshowAllPair(x, y) ==
  St("imshow_all", {"imshow_all", x, y}, {"rcParams"},
     <<x, y, [k \in {"shape"} |-> <<1, 2>>]>>)

\* a variant of the helper cell: imshow_all defined without the import of
\* img_as_float that its body needs
FiltHelperNoImport == << Def("imshow_all") >>

FiltImports == << Magic("inline"), Import({"np", "plt"}) >>
FiltHelper == << Import({"img_as_float"}), Def("imshow_all") >>
FiltCoinsZoom ==
  << Import({"data", "filters"}),
     Load("coins", "coins.png"),
     St("zoom", {"coins"}, {}, <<"coins_zoom", "coins">>),
     ImshowCmap("coins_zoom") >>
FiltGaussian ==
  << St("gaussian", {"filters", "coins_zoom"}, {}, <<"gaussian_coins", "coins_zoom">>),
     ImshowCmap("gaussian_coins") >>
FiltMedian ==
  << St("median", {"filters", "coins_zoom", "np"}, {}, <<"median_coins", "coins_zoom">>),
     ImshowCmap("median_coins") >>
FiltSolutionKernel == << >>
FiltCubehelix == << St("rc", {"plt"}, {}, <<"cubehelix">>) >>
FiltTestImage == << St("test_image", {"np"}, {}, <<"image">>), Imshow("image") >>
FiltSelems ==
  << Import({"morphology"}),
     St("square", {"morphology"}, {}, <<"sq", 3>>),
     St("diamond", {"morphology"}, {}, <<"dia", 1>>),
     Use({"sq"}),
     Use({"dia"}) >>
FiltEroded ==
  << St("erosion", {"morphology", "image", "dia"}, {}, <<"eroded", "image", "dia">>),
     ImshowAllPair("image", "eroded") >>
FiltErodedTooMuch ==
  << St("erosion_square5", {"morphology", "image"}, {}, <<"eroded_too_much", "image">>),
     ImshowAllPair("image", "eroded_too_much") >>
FiltDilDia ==
  << St("dilation", {"morphology", "eroded", "dia"}, {}, <<"dil_dia", "eroded", "dia">>),
     ImshowAllPair("eroded", "dil_dia") >>
FiltDilSq ==
  << St("dilation", {"morphology", "eroded", "sq"}, {}, <<"dil_sq", "eroded", "sq">>),
     ImshowAllPair("eroded", "dil_sq") >>
FiltNoisy ==
  << St("blobs", {"data"}, {}, <<"im">>),
     St("add_noise", {"im", "np"}, {}, <<"im">>),
     St("positive", {"im"}, {}, <<"noisy_im", "im">>),
     Imshow("noisy_im") >>
FiltSolutionClean == << >>
FiltViridis == << St("rc", {"plt"}, {}, <<"viridis">>) >>
FiltCoins ==
  << Load("coins", "coins.png"),
     ImshowCmap("coins"),
     Use({"filters", "coins"}),
     St("opaque", {"plt", "coins"}, {"figure"}, <<"cs", "contours">>),
     St("use", {"plt", "cs"}, {"figure"}, <<>>) >>
FiltWatershed ==
  << St("sobel", {"filters", "coins"}, {}, <<"edges", "coins">>),
     St("zeros_like", {"np", "coins"}, {}, <<"markers", "coins">>),
     St("const", {}, {}, <<"background", 1>>),
     St("const", {}, {}, <<"foreground", 2>>),
     St("mark_below", {"markers", "coins", "background"}, {}, <<"markers", 30, "background">>),
     St("mark_above", {"markers", "coins", "foreground"}, {}, <<"markers", 150, "foreground">>),
     Import({"segmentation"}),
     St("watershed", {"segmentation", "edges", "markers"}, {}, <<"ws", "edges", "markers">>),
     Figure,
     St("use", {"plt"}, {"figure"}, <<>>),
     Imshow("markers"),
     St("use", {"plt"}, {"figure"}, <<>>),
     Imshow("edges"),
     St("use", {"plt"}, {"figure"}, <<>>),
     Imshow("ws"),
     St("use", {"plt"}, {"figure"}, <<>>) >>
FiltSeeds ==
  << Import({"util", "color"}),
     St("opaque", {"util", "coins"}, {}, <<"grid", "slices">>),
     St("seeds", {"np", "coins", "grid"}, {}, <<"seeds", "coins">>),
     St("watershed_seeds", {"segmentation", "edges", "seeds"}, {}, <<"ws_seeds", "seeds">>),
     St("subplots", {"plt"}, {}, {"fig", "ax0", "ax1"}),
     AxImshowCmap("ax0", "coins"),
     Use({"ax0", "seeds"}),
     Use({"ax0"}),
     St("use", {"ax1", "color", "ws_seeds", "coins"}, {"rcParams"}, <<>>),
     Use({"ax1"}) >>
FiltShowWs == << Imshow("ws") >>
FiltLabel ==
  << Import({"measure"}),
     St("label", {"measure", "ws"}, {}, <<"labels", "ws">>),
     Imshow("labels"),
     St("print_max", {"labels"}, {}, <<"labels">>) >>
FiltLabel10 == << Imshow("labels") >>
FiltRegionprops ==
  << St("regionprops", {"measure", "labels", "coins"}, {}, <<"properties", "labels", "coins">>),
     Use({"properties"}),
     St("first", {"properties"}, {}, <<"properties">>) >>
FiltAreas ==
  << St("opaque", {"properties"}, {}, <<"areas", "list">>),
     Use({"areas"}),
     St("opaque", {"properties"}, {}, <<"mean_intensities", "list">>),
     Use({"mean_intensities"}) >>
FiltCanny ==
  << Import({"feature"}),
     St("opaque", {"feature", "coins"}, {}, <<"canny", "edges">>),
     Imshow("canny") >>
FiltSobel ==
  << St("sobel", {"filters", "coins"}, {}, <<"sobel", "coins">>),
     Imshow("sobel"),
     St("use", {"plt"}, {"figure"}, <<>>) >>
FiltSobelThreshold == << Imshow("sobel") >>
FiltText ==
  << Load("text", "text.png"),
     St("opaque", {"feature", "text"}, {}, <<"coords", "coordinates">>),
     ImshowCmap("text"),
     St("draw", {"plt", "coords"}, {"figure"}, <<>>) >>

FiltCells ==
  << FiltImports, FiltHelper, FiltCoinsZoom, FiltGaussian, FiltMedian,
     FiltSolutionKernel, FiltCubehelix, FiltTestImage, FiltSelems, FiltEroded,
     FiltErodedTooMuch, FiltDilDia, FiltDilSq, FiltNoisy, FiltSolutionClean,
     FiltViridis, FiltCoins, FiltWatershed, FiltSeeds, FiltShowWs, FiltLabel,
     FiltLabel10, FiltRegionprops, FiltAreas, FiltCanny, FiltSobel,
     FiltSobelThreshold, FiltText >>

Cells(n) ==
  CASE n = "arrays" -> ArraysCells
    [] n = "visualization" -> VisCells
    [] n = "filtering" -> FiltCells

Notebooks == {"arrays", "visualization", "filtering"}

\* --------------------------------------------------------------- kernel
VARIABLES
  nb,       \* the notebook this kernel runs
  pc,       \* the cell that is executed next
  alive,    \* the kernel process is running
  bundled,  \* the sample images shipped with the library, by file name
  ns,       \* the kernel's namespace: name -> value
  born,     \* name -> the value it had when the cell that bound it ended
  stale,    \* objects that were read holding another value than at creation
  rc,       \* plt.rcParams['image.cmap']
  backend,  \* the matplotlib backend: inline closes the figures of a cell
  fig,      \* pyplot's current figure: the cell that created it, 0 for none
  tmpdirs,  \* the directories tempfile.mkdtemp created
  files,    \* the files written
  loaded,   \* the files read
  err,      \* the exception that ended the last executed cell, "" for none
  shown,    \* what the last imshow_all call of the last cell did
  printed,  \* the number the last cell printed as "number of coins", -1 for none
  done,     \* the cells that were executed without an exception
  jumps     \* how often a cell was selected out of order

vars == <<nb, pc, alive, bundled, ns, born, stale, rc, backend, fig, tmpdirs,
          files, loaded, err, shown, printed, done, jumps>>

RcDefault == "viridis"
NoShow == [called |-> FALSE]
EmptyNs == [n \in {} |-> Obj("")]

\* the kernel's state, and the file system, as one record
World ==
  [bundled |-> bundled, ns |-> ns, born |-> born, stale |-> stale, rc |-> rc,
   backend |-> backend, fig |-> fig, tmpdirs |-> tmpdirs, files |-> files,
   loaded |-> loaded, err |-> err, shown |-> shown, printed |-> printed,
   bound |-> {}]

\* name = value
Bind(w, n, v) ==
  [w EXCEPT !.ns = [m \in DOMAIN w.ns \cup {n} |-> IF m = n THEN v ELSE w.ns[m]],
            !.bound = @ \cup {n}]

RECURSIVE BindAll(_, _, _)
BindAll(w, names, v) ==
  IF names = {} THEN w
  ELSE LET n == CHOOSE x \in names : TRUE
       IN BindAll(Bind(w, n, v), names \ {n}, v)

\* an assignment into the object a name refers to
Mutate(w, n, v) == [w EXCEPT !.ns[n] = v]

\* a variant of the masking: coins_bg = coins without np.copy, so that the
\* assignment writes into the array both names refer to
MaskBackgroundAliased(w) ==
  LET masked == MaskAssign(w.ns["coins_bg"], w.ns["mask_bg"], 0)
  IN Mutate(Mutate(w, "coins_bg", masked), "coins", masked)

\* coins_bg[mask_bg] = 0
MaskBackground(w) ==
  Mutate(w, "coins_bg", MaskAssign(w.ns["coins_bg"], w.ns["mask_bg"], 0))

\* a variant of the path of a file: the bare file name, which names a file
\* of the working directory
JoinNoDir(dir, file) == Path("cwd", 0, file)

\* os.path.join(directory, file)
Join(dir, file) == Path(dir.root, dir.id, file)

\* tempfile.mkdtemp(): a new directory under the system's temporary directory
Mkdtemp(w, target) ==
  LET d == Cardinality(w.tmpdirs) + 1
  IN [Bind(w, target, Path("tmp", d, "")) EXCEPT !.tmpdirs = @ \cup {d}]

\* the image stored in a file
FileContent(w, path) == w.bundled[path.file]

\* the effect of one statement; o holds the outcomes of the calls whose
\* result the cell does not determine, c is the executing cell
Apply(st, w, o, c) ==
  LET a == st.a IN
  CASE st.op = "import" -> BindAll(w, a, Mod("module"))
    [] st.op = "magic" -> [w EXCEPT !.backend = a[1]]
    [] st.op = "use" -> w
    [] st.op = "opaque" -> Bind(w, a[1], Obj(a[2]))
    [] st.op = "const" -> Bind(w, a[1], [kind |-> "int", v |-> a[2]])
    [] st.op = "load" ->
         [Bind(w, a[1], w.bundled[a[2]]) EXCEPT !.loaded = @ \cup {Path("data", 0, a[2])}]
    [] st.op = "draw" -> [w EXCEPT !.fig = IF @ = 0 THEN c ELSE @]
    [] st.op = "figure" -> [w EXCEPT !.fig = c]
    [] st.op = "subplots" -> [BindAll(w, a, Obj("figure")) EXCEPT !.fig = c]
    [] st.op = "set_cmap" -> [w EXCEPT !.rc = a[1]]
    [] st.op = "rc" -> [w EXCEPT !.rc = a[1]]
    [] st.op = "red_square" -> Mutate(w, "cat", RedSquare(w.ns["cat"]))
    [] st.op = "mask_bg" -> Bind(w, a[1], Less(w.ns["coins"], 90))
    [] st.op = "np_copy" -> Bind(w, a[1], NpCopy(w.ns["coins"]))
    [] st.op = "mask_assign" -> MaskBackground(w)
    [] st.op = "overflow" -> Bind(w, a[1], ScalarMul(2, w.ns["camera"]))
    [] st.op = "img_as_float" -> Bind(w, a[1], ImgAsFloat(w.ns["camera"]))
    [] st.op = "gaussian" -> Bind(w, a[1], Gaussian(w.ns[a[2]], o.g))
    [] st.op = "data_dir" -> Bind(w, a[1], Path("data", 0, ""))
    [] st.op = "join" -> Bind(w, a[1], Join(w.ns[a[2]], a[3]))
    [] st.op = "imread" ->
         [Bind(w, a[1], FileContent(w, w.ns[a[2]])) EXCEPT !.loaded = @ \cup {w.ns[a[2]]}]
    [] st.op = "mkdtemp" -> Mkdtemp(w, a[1])
    [] st.op = "imsave" -> [w EXCEPT !.files = @ \cup {w.ns[a[1]]}]
    [] st.op = "savefig" -> [w EXCEPT !.files = @ \cup {w.ns[a[1]]}]
    [] st.op = "ramp" -> Bind(w, a[1], Ramp)
    [] st.op = "gray2rgb" -> Bind(w, a[1], Gray2Rgb(w.ns[a[2]]))
    [] st.op = "red_circle" -> Mutate(w, a[1], RedCircle(w.ns[a[1]]))
    [] st.op = "zoom" -> Bind(w, a[1], Zoom(w.ns[a[2]]))
    [] st.op = "median" -> Bind(w, a[1], Median(w.ns[a[2]]))
    [] st.op = "test_image" -> Bind(w, a[1], TestImage)
    [] st.op = "square" -> Bind(w, a[1], Square(a[2]))
    [] st.op = "diamond" -> Bind(w, a[1], Diamond(a[2]))
    [] st.op = "erosion" -> Bind(w, a[1], Erosion(w.ns[a[2]], w.ns[a[3]]))
    [] st.op = "erosion_square5" -> Bind(w, a[1], Erosion(w.ns[a[2]], Square(5)))
    [] st.op = "dilation" -> Bind(w, a[1], Dilation(w.ns[a[2]], w.ns[a[3]]))
    [] st.op = "imshow_all" -> imshow_all(w, <<w.ns[a[1]], w.ns[a[2]]>>, a[3], c)
    [] st.op = "blobs" -> Bind(w, a[1], Blobs(o.blobs))
    [] st.op = "add_noise" -> Mutate(w, a[1], AddNoise(w.ns[a[1]], o.noise))
    [] st.op = "positive" -> Bind(w, a[1], Greater(w.ns[a[2]], 0))
    [] st.op = "sobel" -> Bind(w, a[1], Sobel(w.ns[a[2]]))
    [] st.op = "zeros_like" -> Bind(w, a[1], ZerosLike(w.ns[a[2]]))
    [] st.op = "mark_below" ->
         Mutate(w, a[1], Mark(w.ns[a[1]], Less(w.ns["coins"], a[2]), w.ns[a[3]].v))
    [] st.op = "mark_above" ->
         Mutate(w, a[1], Mark(w.ns[a[1]], Greater(w.ns["coins"], a[2]), w.ns[a[3]].v))
    [] st.op = "watershed" -> Bind(w, a[1], Watershed(w.ns[a[2]], w.ns[a[3]], o.d))
    [] st.op = "seeds" -> Bind(w, a[1], Seeds(w.ns[a[2]]))
    [] st.op = "watershed_seeds" -> Bind(w, a[1], Watershed(w.ns["edges"], w.ns[a[2]], 0))
    [] st.op = "label" -> Bind(w, a[1], Label(w.ns[a[2]]))
    [] st.op = "print_max" -> [w EXCEPT !.printed = ArrMax(w.ns[a[1]])]
    [] st.op = "regionprops" -> Bind(w, a[1], RegionProps(w.ns[a[2]], w.ns[a[3]]))
    [] st.op = "first" ->
         IF Len(w.ns[a[1]].items) = 0 THEN [w EXCEPT !.err = "IndexError"] ELSE w

\* the objects a statement reads that no longer hold the value they had
\* when the cell that created them ended
StaleReads(st, w, c) ==
  {n \in st.reads \ w.bound : n \in DOMAIN w.born /\ w.ns[n] # w.born[n]}
  \cup (IF "rcParams" \in st.g /\ w.rc # RcDefault THEN {"rcParams"} ELSE {})
  \cup (IF "figure" \in st.g /\ w.fig \notin {0, c} THEN {"figure"} ELSE {})

\* the statements of a cell in order, up to the first that raises
RECURSIVE ExecFrom(_, _, _, _, _)
ExecFrom(stmts, i, w, o, c) ==
  IF i > Len(stmts) THEN w
  ELSE IF ~(stmts[i].reads \subseteq DOMAIN w.ns) THEN [w EXCEPT !.err = "NameError"]
  ELSE LET w2 == CHOOSE x \in
                   {Apply(stmts[i], [w EXCEPT !.stale = @ \cup StaleReads(stmts[i], w, c)], o, c)} : TRUE
       IN IF w2.err # "" THEN w2 ELSE ExecFrom(stmts, i + 1, w2, o, c)

\* the values the names bound by the cell hold when it ends
Reborn(w) ==
  [m \in DOMAIN w.born \cup w.bound |-> IF m \in w.bound THEN w.ns[m] ELSE w.born[m]]

\* one execution of cell c
ExecCell(n, c, w, o) ==
  LET w1 == CHOOSE x \in
              {ExecFrom(Cells(n)[c], 1, [w EXCEPT !.err = "", !.shown = NoShow, !.printed = -1, !.bound = {}], o, c)} : TRUE
  IN [w1 EXCEPT !.born = Reborn(w1),
                !.fig = IF w1.backend = "inline" THEN 0 ELSE @]

HasOp(cell, op) == \E i \in DOMAIN cell : cell[i].op = op

\* the outcomes a cell does not determine
Oracles(cell) ==
  [g : IF HasOp(cell, "gaussian") THEN 0..2 ELSE {0},
   blobs : IF HasOp(cell, "blobs") THEN [1..NPixBlob -> {0, 1}] ELSE {<<>>},
   noise : IF HasOp(cell, "add_noise") THEN [1..NPixBlob -> {-One, 0, One}] ELSE {<<>>},
   d : IF HasOp(cell, "watershed") THEN {0, 1} ELSE {0}]

\* the sample images a notebook loads; the others are never read by it
Used(n) ==
  CASE n = "" -> {}
    [] n = "arrays" -> {"coins.png", "chelsea.png", "camera.png"}
    [] n = "visualization" -> {"coins.png", "chelsea.png", "camera.png", "coffee.png"}
    [] n = "filtering" -> {"coins.png", "text.png"}

Choices(n, f, imgs) ==
  IF f \in Used(n) THEN imgs ELSE {CHOOSE x \in imgs : TRUE}

Bundle(co, ca, cm) ==
  [f \in {"coins.png", "chelsea.png", "camera.png", "coffee.png", "text.png"} |->
     CASE f = "coins.png" -> co
       [] f = "chelsea.png" -> ca
       [] f = "camera.png" -> cm
       [] OTHER -> Arr("uint8", <<>>)]

Bundles(coins, cats, cams) ==
  {Bundle(co, ca, cm) : co \in coins, ca \in cats, cm \in cams}

\* the bundles that differ in the images notebook n loads
BundlesOf(n) ==
  Bundles(Choices(n, "coins.png", CoinImgs), Choices(n, "chelsea.png", CatImgs),
          Choices(n, "camera.png", CamImgs))

\* a fresh kernel for notebook n, with the sample images b installed
Start(n, b) ==
  /\ nb = n
  /\ pc = 1
  /\ alive = TRUE
  /\ bundled = b
  /\ ns = EmptyNs
  /\ born = EmptyNs
  /\ stale = {}
  /\ rc = RcDefault
  /\ backend = "inline"
  /\ fig = 0
  /\ tmpdirs = {}
  /\ files = {}
  /\ loaded = {}
  /\ err = ""
  /\ shown = NoShow
  /\ printed = -1
  /\ done = {}
  /\ jumps = 0

Init == \E n \in Notebooks : \E b \in BundlesOf(n) : Start(n, b)

\* the kernel executes cell c, with one of the outcomes os
Run(c, os) ==
  /\ alive
  /\ c \in DOMAIN Cells(nb)
  /\ HasOp(Cells(nb)[c], "mkdtemp") => Cardinality(tmpdirs) < MaxDirs
  /\ \E o \in os : \E w \in {ExecCell(nb, c, World, o)} :
         /\ ns' = w.ns
         /\ born' = w.born
         /\ stale' = w.stale
         /\ rc' = w.rc
         /\ backend' = w.backend
         /\ fig' = w.fig
         /\ tmpdirs' = w.tmpdirs
         /\ files' = w.files
         /\ loaded' = w.loaded
         /\ err' = w.err
         /\ shown' = w.shown
         /\ printed' = w.printed
         /\ done' = IF w.err = "" THEN done \cup {c} ELSE done
  /\ pc' = c + 1
  /\ UNCHANGED <<nb, alive, bundled>>

RunCell(c) == Run(c, Oracles(Cells(nb)[c]))

\* "Run All": top to bottom, stopping at the first exception
RunAll == err = "" /\ RunCell(pc) /\ UNCHANGED jumps

\* one fixed outcome of the calls of cell c
RunCellFixed(c) == Run(c, {CHOOSE o \in Oracles(Cells(nb)[c]) : TRUE})

\* the selected cell is executed and the selection moves to the next cell
Step == RunCellFixed(pc) /\ UNCHANGED jumps

\* the user selects another cell than the next one and executes it
Jump ==
  /\ jumps < MaxJumps
  /\ \E c \in DOMAIN Cells(nb) : c # pc /\ RunCellFixed(c)
  /\ jumps' = jumps + 1

\* a variant of the end of the process: the files are removed, as they
\* are for tempfile.TemporaryDirectory
AtExitRemoved(fs) == {}

\* what is left of the files when the kernel process has ended: nothing
\* removes a directory made by tempfile.mkdtemp, nor a file in it
AtExit(fs) == fs

\* the kernel process ends: its memory is released
Shutdown ==
  /\ alive
  /\ alive' = FALSE
  /\ ns' = EmptyNs
  /\ born' = EmptyNs
  /\ fig' = 0
  /\ shown' = NoShow
  /\ printed' = -1
  /\ tmpdirs' = AtExit(tmpdirs)
  /\ files' = AtExit(files)
  /\ UNCHANGED <<nb, pc, bundled, stale, rc, backend, loaded, err, done, jumps>>

\* a notebook executed once, top to bottom
Next == RunAll \/ Shutdown

Spec == Init /\ [][Next]_vars

\* a notebook whose cells the user executes in an order of their choice
NextAnyOrder == Step \/ Jump

\* one fixed set of sample images (and, in Step and Jump, one fixed outcome
\* of the random calls): the order of the executions is what varies
InitAnyOrder ==
  \E n \in Notebooks : Start(n, CHOOSE b \in BundlesOf(n) : TRUE)

SpecAnyOrder == InitAnyOrder /\ [][NextAnyOrder]_vars

\* the notebook of arrays.ipynb with the first camera pixel ranging over
\* every 8-bit value
CamImgsAll ==
  {Arr("uint8", p) : p \in {q \in [1..NPixCam -> 0..255] :
                              \A i \in 2..NPixCam : q[i] \in {0, 255}}}
InitOverflow ==
  \E b \in Bundles(Choices("", "coins.png", CoinImgs),
                    Choices("", "chelsea.png", CatImgs), CamImgsAll) :
    Start("arrays", b)

SpecOverflow == InitOverflow /\ [][Next]_vars

\* ---------------------------------------------- calls of imshow_all
\* the images a call may pass
ImgPool ==
  { Arr("uint8", <<0, 255>>), Arr("uint8", <<10, 200>>),
    Arr("float64", <<One \div 4, One \div 2>>), Arr("bool", <<0, 1>>) }

SeqsUpTo(S, n) == UNION {[1..k -> S] : k \in 0..n}
Dict(keys, full) == [k \in keys |-> full[k]]

\* the keyword arguments a call may pass
KwPool ==
  { Dict(keys, [titles |-> t, limits |-> l, vmin |-> 0, vmax |-> One, shape |-> sh]) :
      keys \in {{}, {"titles"}, {"limits"}, {"titles", "limits"}, {"shape"},
                {"titles", "shape"}, {"limits", "shape"}, {"titles", "limits", "shape"},
                {"vmin"}, {"vmin", "vmax"}, {"titles", "vmin", "vmax"},
                {"limits", "vmin", "vmax"}},
      t \in SeqsUpTo({"a", "b"}, MaxImages),
      l \in {"image", "dtype", "none"},
      sh \in {<<1, 1>>, <<1, 2>>, <<1, MaxImages>>, <<2, 2>>} }

\* the kernel of the filtering notebook after its first two cells: the
\* imports and the cell that defines imshow_all
Helper ==
  LET o == CHOOSE x \in Oracles(FiltHelper) : TRUE
      b == CHOOSE x \in BundlesOf("filtering") : TRUE
      w0 == [bundled |-> b, ns |-> EmptyNs, born |-> EmptyNs, stale |-> {},
             rc |-> RcDefault, backend |-> "inline", fig |-> 0, tmpdirs |-> {},
             files |-> {}, loaded |-> {}, err |-> "", shown |-> NoShow,
             printed |-> -1, bound |-> {}]
  IN ExecCell("filtering", 2, ExecCell("filtering", 1, w0, o), o)

InitImshow ==
  /\ nb = "filtering"
  /\ pc = 3
  /\ alive = TRUE
  /\ \E w \in {Helper} :
       /\ bundled = w.bundled
       /\ ns = w.ns
       /\ born = w.born
       /\ stale = w.stale
       /\ rc = w.rc
       /\ backend = w.backend
       /\ fig = w.fig
       /\ tmpdirs = w.tmpdirs
       /\ files = w.files
       /\ loaded = w.loaded
       /\ err = w.err
       /\ shown = w.shown
       /\ printed = w.printed
  /\ done = {1, 2}
  /\ jumps = 0

\* one call imshow_all(*images, **kwargs) in a cell of the user
CallImshowAll ==
  /\ alive
  /\ ~shown.called
  /\ "imshow_all" \in DOMAIN ns
  /\ \E images \in SeqsUpTo(ImgPool, MaxImages) : \E kwargs \in KwPool :
       \E w \in {imshow_all(World, images, kwargs, pc)} :
         /\ shown' = w.shown
         /\ err' = w.err
  /\ UNCHANGED <<nb, pc, alive, bundled, ns, born, stale, rc, backend, fig,
                 tmpdirs, files, loaded, printed, done, jumps>>

SpecImshow == InitImshow /\ [][CallImshowAll]_vars

\* ------------------------------------------------------------ properties
\* the cell that was executed last
Last == pc - 1

\* C1, as the specification states it: every cell is independent, so no
\* execution of a cell, in whatever order, fails for want of a name that
\* another cell binds
C1_CellsIndependent == err # "NameError"

\* C1, as the notebooks behave: a cell depends on the cells above it and on
\* no other; whatever the order of the executions so far, a cell that is
\* executed when every cell above it has completed raises no exception
C1_DependsOnCellsAbove ==
  (Last \in DOMAIN Cells(nb) /\ (1..(Last - 1)) \subseteq done) => err = ""

\* the user re-executed an earlier cell of the filtering notebook and then
\* went on down to the cell that reads coins and edges
C1_Witness ==
  /\ nb = "filtering"
  /\ jumps > 0
  /\ Last = 19
  /\ (1..19) \subseteq done
  /\ err = ""

\* C2, as the specification states it: no object a cell reads was modified
\* after its creation
C2_NoSharedMutableState == stale = {}

\* C2, as the notebooks behave: the objects modified after their creation
\* and read later are the cat array (arrays), the current figure, the
\* default colormap and coins_color (visualization) and
\* rcParams['image.cmap'] (filtering); every other object a cell reads has
\* the value it had when the cell that created it ended
C2_SharedMutableState ==
  /\ nb = "arrays" => stale \subseteq {"cat"}
  /\ nb = "visualization" => stale \subseteq {"figure", "rcParams", "coins_color"}
  /\ nb = "filtering" => stale \subseteq {"rcParams"}

\* the visualization notebook has read all three
C2_Witness ==
  nb = "visualization" /\ stale = {"figure", "rcParams", "coins_color"}

\* C3, as the specification states it: when the process has ended, no
\* temporary directory and no file written into one exists any more
C3_TempFilesReleased == ~alive => (tmpdirs = {} /\ files = {})

\* C3, as the notebooks behave: the end of the process releases the memory
\* (the namespace) and leaves every temporary directory and every file
\* written into it in place
C3_TempFilesPersist ==
  [][(alive /\ ~alive') => (ns' = EmptyNs /\ tmpdirs' = tmpdirs /\ files' = files)]_vars

\* the process of the arrays notebook has ended and both files are there
C3_Witness ==
  /\ ~alive
  /\ nb = "arrays"
  /\ tmpdirs = {1}
  /\ files = {Path("tmp", 1, "my_camera.png"), Path("tmp", 1, "gaussian_camera.png")}

\* C4: every file written lies in a directory that tempfile.mkdtemp made
\* in this run, and every file read is a bundled sample image
C4_FilesInTempDir ==
  /\ \A f \in files : f.root = "tmp" /\ f.id \in tmpdirs /\ f.file # ""
  /\ \A f \in loaded : f.root = "data" /\ f.file \in Used(nb)

\* two files were written and camera.png was read back by its path
C4_Witness ==
  /\ Cardinality(files) = 2
  /\ Path("data", 0, "camera.png") \in loaded
  /\ "camera_filename" \in DOMAIN ns

\* what a call was given
GivenLimits == Get(shown.kwargs, "limits", "image")
GivenTitles == Get(shown.kwargs, "titles", <<>>)
NoRangeGiven == {"vmin", "vmax"} \cap DOMAIN shown.kwargs = {}

\* every image of the call was drawn, in order, with the range <<lo, hi>>
DrawnWithRange(lo, hi) ==
  /\ Len(shown.drawn) = Len(shown.imgs)
  /\ \A i \in DOMAIN shown.drawn :
       /\ shown.drawn[i].img = ImgAsFloat(shown.imgs[i])
       /\ shown.drawn[i].kw["vmin"] = lo
       /\ shown.drawn[i].kw["vmax"] = hi

\* C5: a call with limits='dtype' (two images or more, on the default
\* grid) completes without error and draws every image with the limits of
\* the float type, 0 and 1
C5_DtypeLimits ==
  (/\ shown.called
   /\ GivenLimits = "dtype"
   /\ Len(shown.imgs) >= 2
   /\ "shape" \notin DOMAIN shown.kwargs
   /\ NoRangeGiven)
  => (shown.err = "" /\ DrawnWithRange(0, One))

\* C6: a call with fewer titles than images (and not limits='dtype') has
\* a title list of len(images) entries and draws the i-th image with the
\* i-th given title, or with '' where none was given
C6_TitlesPadded ==
  (/\ shown.called
   /\ GivenLimits # "dtype"
   /\ Len(GivenTitles) < Len(shown.imgs))
  => /\ Len(shown.titles) = Len(shown.imgs)
     /\ Len(shown.drawn) = Len(shown.imgs)
     /\ \A i \in DOMAIN shown.drawn :
          /\ shown.drawn[i].img = ImgAsFloat(shown.imgs[i])
          /\ shown.drawn[i].title =
               (IF i <= Len(GivenTitles) THEN GivenTitles[i] ELSE "")

\* the least and the greatest sample of the images after img_as_float
FloatSamples(imgs) ==
  UNION {{ImgAsFloat(imgs[i]).px[j] : j \in DOMAIN imgs[i].px} : i \in DOMAIN imgs}

\* C7: a call with the default limits='image', no vmin or vmax and the
\* default grid draws every image with vmin the least and vmax the
\* greatest sample of all the images converted to float
C7_CommonRange ==
  (/\ shown.called
   /\ GivenLimits = "image"
   /\ NoRangeGiven
   /\ "shape" \notin DOMAIN shown.kwargs
   /\ Len(shown.imgs) > 0)
  => DrawnWithRange(SetMin(FloatSamples(shown.imgs)), SetMax(FloatSamples(shown.imgs)))

\* the samples of an array lie in the range of its element type
InRange(a) ==
  \A i \in DOMAIN a.px :
    CASE a.dtype = "uint8" -> a.px[i] \in 0..255
      [] a.dtype = "uint16" -> a.px[i] \in 0..65535
      [] a.dtype = "float64" -> a.px[i] >= 0 /\ a.px[i] <= One
      [] OTHER -> TRUE
Arrays == {n \in DOMAIN ns : ns[n].kind = "array"}

C9_Overflow ==
  "camera_overflow" \in DOMAIN ns =>
    /\ ns["camera_overflow"].dtype = "uint8"
    /\ DOMAIN ns["camera_overflow"].px = DOMAIN bundled["camera.png"].px
    /\ \A i \in DOMAIN bundled["camera.png"].px :
         LET p == bundled["camera.png"].px[i]
         IN ns["camera_overflow"].px[i] = (IF p < 128 THEN 2 * p ELSE 2 * p - 256)
    /\ ns["camera"] = bundled["camera.png"]

\* a pixel of 200 became 144
C9_Witness ==
  /\ "camera_overflow" \in DOMAIN ns
  /\ ns["camera"].px[1] = 200
  /\ ns["camera_overflow"].px[1] = 144

\* the connected regions of a row of labels that carry the label v
Regions(px, v) ==
  Cardinality({i \in DOMAIN px : px[i] = v /\ (i = 1 \/ px[i - 1] # v)})

\* C10: the number printed as the number of coins, labels.max(), is the
\* number of connected regions of ws that carry the foreground label;
\* regions of the background label are not counted
C10_NumberOfCoins ==
  (printed # -1 /\ "ws" \in DOMAIN ns /\ "foreground" \in DOMAIN ns)
  => printed = Regions(ns["ws"].px, ns["foreground"].v)

\* the 7x7 image with the centre pixel (3, 3) alone set, and with none set
CentreOnly == [k \in 1..49 |-> IF k = 25 THEN 1 ELSE 0]
NoneSet == [k \in 1..49 |-> 0]

\* C11: erosion takes the minimum over the structuring element: of the
\* 3x3 block of the 7x7 image, erosion with diamond(radius=1) leaves
\* exactly the centre pixel (3, 3) set and erosion with square(5) leaves no
\* pixel set; the image itself is not changed
C11_Erosion ==
  /\ "eroded" \in DOMAIN ns =>
       /\ ns["eroded"].px = CentreOnly
       /\ ns["eroded"].dtype = "uint8"
       /\ ns["image"].px = TestImage.px
  /\ "eroded_too_much" \in DOMAIN ns =>
       /\ ns["eroded_too_much"].px = NoneSet
       /\ ns["image"].px = TestImage.px

\* both erosions were computed
C11_Witness ==
  /\ nb = "filtering"
  /\ "eroded" \in DOMAIN ns
  /\ "eroded_too_much" \in DOMAIN ns
  /\ ns["eroded"].px[25] = 1
  /\ ns["image"].px[17] = 1

\* C12: in the top-to-bottom run of each notebook every name a cell reads
\* was bound by that cell or by a cell above it: no execution ends in a
\* NameError, and every cell above the one executed last has completed
C12_NoUndefinedName ==
  /\ err # "NameError"
  /\ \A c \in DOMAIN Cells(nb) : c < Last => c \in done

\* the filtering notebook was executed to its last cell, through the calls
\* of imshow_all and the label and regionprops cells
C12_Witness ==
  /\ nb = "filtering"
  /\ pc = Len(FiltCells) + 1
  /\ done = DOMAIN FiltCells
  /\ "properties" \in DOMAIN ns
  /\ err = ""

\* C13: after the background-masking cell, coins_bg is 0 where coins < 90
\* and equals coins elsewhere, mask_bg is True exactly where coins < 90,
\* and coins still is the image that data.coins() returned
C13_MaskLeavesCoins ==
  "coins_bg" \in DOMAIN ns =>
    LET before == bundled["coins.png"].px IN
    /\ ns["coins"] = bundled["coins.png"]
    /\ ns["mask_bg"].dtype = "bool"
    /\ ns["coins_bg"].dtype = "uint8"
    /\ DOMAIN ns["coins_bg"].px = DOMAIN before
    /\ DOMAIN ns["mask_bg"].px = DOMAIN before
    /\ \A i \in DOMAIN before :
         /\ ns["mask_bg"].px[i] = (IF before[i] < 90 THEN 1 ELSE 0)
         /\ ns["coins_bg"].px[i] = (IF before[i] < 90 THEN 0 ELSE before[i])

\* a background pixel was set to 0 in coins_bg and kept in coins, and a
\* pixel of exactly 90 was kept in both
C13_Witness ==
  /\ nb = "arrays"
  /\ "coins_bg" \in DOMAIN ns
  /\ \E i \in DOMAIN ns["coins"].px :
       ns["coins"].px[i] = 29 /\ ns["coins_bg"].px[i] = 0 /\ ns["mask_bg"].px[i] = 1
  /\ \E i \in DOMAIN ns["coins"].px :
       ns["coins"].px[i] = 90 /\ ns["coins_bg"].px[i] = 90 /\ ns["mask_bg"].px[i] = 0

====
